---- MODULE Spec2Model ----
(***************************************************************************)
(* Camera-server: the per-camera recorder (StreamProcessor in              *)
(* camera_server.py), its pre-event export worker pool, and the retention  *)
(* sweeper (cleanup_recordings.py), over one shared storage tree.          *)
(*                                                                         *)
(* Time is counted in whole seconds.  A path is a sequence of string       *)
(* tokens ("/" separates components), so that str.replace and              *)
(* str.endswith are computed on the path and not assumed.                  *)
(***************************************************************************)
EXTENDS Integers, Sequences, FiniteSets, TLC

VARIABLES
    now,                    \* time.time()
    running,                \* StreamProcessor.running
    event_recording,        \* StreamProcessor.event_recording
    event_end_time,         \* StreamProcessor.event_end_time
    frame_buffer,           \* StreamProcessor.frame_buffer (deque of (ts, frame))
    segment_start_time,     \* StreamProcessor.segment_start_time
    video_writer,           \* StreamProcessor.video_writer
    segment_file_path,      \* StreamProcessor.segment_file_path
    csf,                    \* StreamProcessor.current_segment_frames (never set in __init__)
    cap,                    \* local cap of start_processing: "none" | "open"
    first_frame,            \* local first_frame of start_processing (0 is None)
    frame,                  \* local frame of start_processing (0 is unbound)
    pc,                     \* position of the start_processing coroutine
    ret,                    \* call site of _close_segment_writer
    sleep_until,            \* end of the pending asyncio.sleep
    wake_pc,                \* where the coroutine resumes after the sleep
    close_md,               \* local metadata of _close_segment_writer
    md_handle,              \* the open sidecar file object of _close_segment_writer
    nframes,                \* frames delivered by the source so far
    tasks,                  \* work items of StreamProcessor.executor not yet finished
    ntriggers,              \* calls of trigger_event_recording so far
    fs,                     \* storage tree: path -> file
    dirs,                   \* storage tree: directories
    sw,                     \* the sweeper process (cleanup_recordings)
    stop_pc,                \* position of StreamProcessor.stop: "idle" | "shutdown" | "returned"
    peer,                   \* the StreamProcessor of a second camera, on the same event loop
    http                    \* the last response of the HTTP API

vars == <<now, running, event_recording, event_end_time, frame_buffer,
          segment_start_time, video_writer, segment_file_path, csf, cap,
          first_frame, frame, pc, ret, sleep_until, wake_pc, close_md,
          md_handle, nframes, tasks, ntriggers, fs, dirs, sw, stop_pc, peer, http>>

recorderVars == <<running, event_recording, event_end_time, frame_buffer,
          segment_start_time, video_writer, segment_file_path, csf, cap,
          first_frame, frame, pc, ret, sleep_until, wake_pc, close_md,
          md_handle, nframes, stop_pc>>

-----------------------------------------------------------------------------
(* Bounds of the model. *)
MaxTime == 5
LoopMaxTime == 8
MaxFrames == 2
MaxTriggers == 2
ConcMaxTime == 6
StopMaxTime == 5
StopMaxTriggers == 1
LiveMaxTime == 6
MidnightMaxTime == 5
MidnightMaxTriggers == 1
CamsMaxTime == 5
CamsMaxFrames == 1
CamsMaxTriggers == 1
ApiMaxTime == 2

(* Program constants. *)
Backoff == 5
MaxWorkers == 2
BufferMaxLen == 100
EventBufferMax == 300
DaySeconds == 86400
HourSeconds == 3600
DefaultMaxAge == 7

(* Values read from recording_config. *)
SegmentDuration == 2
PostEventDuration == 2
PreEventBuffer == 1

(* Python's None for a time, and an unbound / None frame. *)
NoneTime == -1
NoFrame == 0

CameraId == "cam1"
PeerId == "cam2"
BaseDir == "recordings"

-----------------------------------------------------------------------------
(* Paths *)

NoPath == <<>>

\* datetime.strftime("%Y-%m-%d"), ("%H") and ("%H-%M-%S") of a timestamp
DateStr(t) == ToString(t \div DaySeconds)
HourStr(t) == ToString((t % DaySeconds) \div HourSeconds)
ClockStr(t) == ToString(t % DaySeconds)

\* os.path.join(base_dir, camera_id, date_dir, hour_dir)
RecordingDir(cam, t) == <<BaseDir, "/", cam, "/", DateStr(t), "/", HourStr(t)>>

\* SegmentPath with a file name that tells the hour only
SegmentPathByHour(cam, t) == RecordingDir(cam, t) \o <<"/", "segment_", HourStr(t), ".mp4">>

\* os.path.join(base_dir, f"segment_{...}.mp4")
SegmentPath(cam, t) == RecordingDir(cam, t) \o <<"/", "segment_", ClockStr(t), ".mp4">>

\* os.path.join(base_dir, f"pre_event_{...}.mp4")
PreEventPath(cam, t) == RecordingDir(cam, t) \o <<"/", "pre_event_", ClockStr(t), ".mp4">>

\* str.replace(old, new): every occurrence, anywhere in the path
StrReplace(p, old, new) == [i \in DOMAIN p |-> IF p[i] = old THEN new ELSE p[i]]

\* str.endswith(suffix)
EndsWith(p, suffix) == Len(p) > 0 /\ p[Len(p)] = suffix

\* index of the last "/" of a path (0 when there is none)
LastSlash(p) ==
    LET S == {i \in DOMAIN p : p[i] = "/"}
    IN  IF S = {} THEN 0 ELSE CHOOSE i \in S : \A j \in S : j <= i

\* os.path.dirname
Dirname(p) == IF LastSlash(p) = 0 THEN NoPath ELSE SubSeq(p, 1, LastSlash(p) - 1)

\* os.path.basename
Basename(p) == SubSeq(p, LastSlash(p) + 1, Len(p))

\* the directories os.makedirs(d, exist_ok=True) makes sure exist
MakeDirs(d) == {SubSeq(d, 1, k) : k \in {j \in 1..Len(d) : j = Len(d) \/ d[j + 1] = "/"}}

-----------------------------------------------------------------------------
(* Files *)

Absent == "absent"

\* a sidecar's dict; a key the dict lacks is Absent (has_end: end_time is set)
Metadata(type, start, end) ==
    [type |-> type, start_time |-> start, end_time |-> end, has_end |-> TRUE,
     duration |-> end - start, keep |-> Absent, retain |-> Absent]

NoMetadata ==
    [type |-> <<>>, start_time |-> 0, end_time |-> 0, has_end |-> FALSE,
     duration |-> 0, keep |-> Absent, retain |-> Absent]

TypeContinuous == <<"continuous">>
TypePreEvent == <<"pre_", "event">>

VideoFile(ino) == [fmt |-> "video", ino |-> ino, frames |-> <<>>, md |-> NoMetadata]

\* a file object open for writing: the path it was opened at and its inode
Handle(p, ino) == [path |-> p, ino |-> ino]
NoHandle == [path |-> NoPath, ino |-> 0]

\* the inode a file opened for writing at p gets: open(..., 'w') and the
\* video sink truncate an existing file (same inode) and create a missing one
\* (a new inode, named here after the writer that creates it)
InoAt(fsys, p, creator) == IF p \in DOMAIN fsys THEN fsys[p].ino ELSE creator

Put(fsys, p, file) == [q \in DOMAIN fsys \cup {p} |-> IF q = p THEN file ELSE fsys[q]]
Remove(fsys, p) == [q \in DOMAIN fsys \ {p} |-> fsys[q]]

\* the file a handle writes to is still the one at its path
Live(fsys, h) == h.path \in DOMAIN fsys /\ fsys[h.path].ino = h.ino

\* cv2.VideoWriter.write(frame)
WriteFrames(fsys, h, fr) ==
    IF Live(fsys, h)
    THEN [fsys EXCEPT ![h.path].frames = @ \o fr]
    ELSE fsys

\* open(metadata_file, 'w'): the file exists and is empty until json.dump ends
OpenSidecar(fsys, p, creator, md) ==
    Put(fsys, p, [fmt |-> "partial", ino |-> InoAt(fsys, p, creator), frames |-> <<>>, md |-> md])

\* json.dump(metadata, f, indent=2) and the close of the with block
DumpSidecar(fsys, h) ==
    IF Live(fsys, h) THEN [fsys EXCEPT ![h.path].fmt = "json"] ELSE fsys

-----------------------------------------------------------------------------
(* The pre-event export work items of the executor *)

\* a submitted _save_pre_event_buffer(trigger_time); id numbers the submissions
Task(id, t) == [id |-> id, trigger_time |-> t, st |-> "queued", writer |-> NoHandle,
                frames |-> <<>>, md |-> NoHandle]

\* the work items left when item i has finished
Finished(ts, i) == [k \in 1..(Len(ts) - 1) |-> IF k < i THEN ts[k] ELSE ts[k + 1]]

Running(ts) == {i \in DOMAIN ts : ts[i].st \in {"writing", "sidecar"}}

\* the video files that some writer holds open
OpenForWriting ==
    (IF video_writer = NoHandle THEN {} ELSE {video_writer.path})
    \cup {tasks[i].writer.path : i \in {j \in DOMAIN tasks : tasks[j].st = "writing"}}

-----------------------------------------------------------------------------
(* StreamProcessor *)

\* DequeAppend on a deque without maxlen
DequeAppendUnbounded(buf, e) == Append(buf, e)

\* deque(maxlen=100).append
DequeAppend(buf, e) ==
    IF Len(buf) >= BufferMaxLen THEN Append(Tail(buf), e) ELSE Append(buf, e)

\* no request has been answered yet
NoResponse == [code |-> 0, status |-> "", kind |-> "", camera_id |-> "", shinobi |-> ""]

\* StreamProcessor.__init__ of the second camera
PeerIdle ==
    [pc |-> "start", running |-> FALSE, event_recording |-> FALSE,
     event_end_time |-> NoneTime, frame_buffer |-> <<>>,
     segment_start_time |-> NoneTime, video_writer |-> NoHandle,
     segment_file_path |-> NoPath, sleep_until |-> 0, nframes |-> 0,
     ntriggers |-> 0]

InitRecorder ==
    /\ peer = PeerIdle
    /\ http = NoResponse
    /\ running = FALSE
    /\ event_recording = FALSE
    /\ event_end_time = NoneTime
    /\ frame_buffer = <<>>
    /\ segment_start_time = NoneTime
    /\ video_writer = NoHandle
    /\ segment_file_path = NoPath
    /\ csf = [set |-> FALSE, frames |-> <<>>]
    /\ cap = "none"
    /\ first_frame = NoFrame
    /\ frame = NoFrame
    /\ pc = "start"
    /\ ret = "none"
    /\ sleep_until = 0
    /\ wake_pc = "connect"
    /\ close_md = NoMetadata
    /\ md_handle = NoHandle
    /\ nframes = 0
    /\ tasks = <<>>
    /\ ntriggers = 0
    /\ stop_pc = "idle"

\* cleanup_recordings before it is called: its arguments and locals
SweeperIdle ==
    [pc |-> "idle", max_age_days |-> 0, dry_run |-> FALSE, todo |-> {}, files |-> {},
     cur |-> NoPath, size |-> 0, order |-> {}, deleted_count |-> 0, kept_count |-> 0]

InitSweeperIdle ==
    sw = SweeperIdle

Init ==
    /\ now = 0
    /\ InitRecorder
    /\ fs = <<>>
    /\ dirs = {<<BaseDir>>}
    /\ InitSweeperIdle

\* the event-loop thread is not blocked in executor.shutdown(wait=True)
EventLoopFree == stop_pc # "shutdown"

\* start_processing, up to the while loop
StartProcessing ==
    /\ pc = "start"
    /\ EventLoopFree
    /\ running' = TRUE
    /\ pc' = "connect"
    /\ UNCHANGED <<now, event_recording, event_end_time, frame_buffer,
                   segment_start_time, video_writer, segment_file_path, csf, cap,
                   first_frame, frame, ret, sleep_until, wake_pc, close_md,
                   md_handle, nframes, tasks, ntriggers, fs, dirs, sw, stop_pc, peer, http>>

\* one pass of the outer loop up to the inner loop: the connection attempt
Connect ==
    /\ pc = "connect"
    /\ IF ~running
       THEN /\ pc' = "done"
            /\ UNCHANGED <<cap, segment_start_time, first_frame, sleep_until, wake_pc>>
       ELSE \E opened \in BOOLEAN :
              IF opened
              THEN /\ cap' = "open"
                   /\ segment_start_time' = now
                   /\ first_frame' = NoFrame
                   /\ pc' = "read"
                   /\ UNCHANGED <<sleep_until, wake_pc>>
              ELSE /\ cap' = "none"
                   /\ pc' = "sleep"
                   /\ sleep_until' = now + Backoff
                   /\ wake_pc' = "connect"
                   /\ UNCHANGED <<segment_start_time, first_frame>>
    /\ UNCHANGED <<now, running, event_recording, event_end_time, frame_buffer,
                   video_writer, segment_file_path, csf, frame, ret, close_md,
                   md_handle, nframes, tasks, ntriggers, fs, dirs, sw, stop_pc, peer, http>>

\* the inner loop's condition and cap.read()
ReadFrame ==
    /\ pc = "read"
    /\ IF ~(running /\ cap = "open")
       THEN /\ pc' = "after_loop"
            /\ UNCHANGED <<frame, nframes>>
       ELSE \E got \in BOOLEAN :
              IF got /\ nframes < MaxFrames
              THEN /\ frame' = nframes + 1
                   /\ nframes' = nframes + 1
                   /\ pc' = "frame"
              ELSE /\ pc' = "after_loop"
                   /\ UNCHANGED <<frame, nframes>>
    /\ UNCHANGED <<now, running, event_recording, event_end_time, frame_buffer,
                   segment_start_time, video_writer, segment_file_path, csf, cap,
                   first_frame, ret, sleep_until, wake_pc, close_md, md_handle,
                   tasks, ntriggers, fs, dirs, sw, stop_pc, peer, http>>

\* _start_new_segment_writer: the state after it, as [writer, path, fs, dirs]
StartNewSegmentWriter ==
    LET p == SegmentPath(CameraId, segment_start_time)
    IN  [writer |-> Handle(p, InoAt(fs, p, frame)),
         path |-> p,
         fs |-> Put(fs, p, VideoFile(InoAt(fs, p, frame))),
         dirs |-> dirs \cup MakeDirs(Dirname(p))]

\* WritesFrame with the frame that opens a segment skipped
WritesFrameAfterFirst(writer) == writer # NoHandle /\ first_frame # NoFrame

\* whether the frame is written to the sink (self.video_writer is not None)
WritesFrame(writer) == writer # NoHandle

\* the body of the inner loop from the first-frame test to the write
ProcessFrame ==
    /\ pc = "frame"
    /\ LET s == IF first_frame = NoFrame
                THEN StartNewSegmentWriter
                ELSE [writer |-> video_writer, path |-> segment_file_path,
                      fs |-> fs, dirs |-> dirs]
       IN  /\ first_frame' = IF first_frame = NoFrame THEN frame ELSE first_frame
           /\ video_writer' = s.writer
           /\ segment_file_path' = s.path
           /\ dirs' = s.dirs
           /\ frame_buffer' = DequeAppend(frame_buffer, [ts |-> now, frame |-> frame])
           /\ IF WritesFrame(s.writer)
              THEN /\ fs' = WriteFrames(s.fs, s.writer, <<frame>>)
                   /\ frame' = NoFrame
              ELSE /\ fs' = s.fs
                   /\ UNCHANGED frame
    /\ pc' = "rotate"
    /\ UNCHANGED <<now, running, event_recording, event_end_time,
                   segment_start_time, csf, cap, ret, sleep_until, wake_pc,
                   close_md, md_handle, nframes, tasks, ntriggers, sw, stop_pc, peer, http>>

\* the segment-complete test
RotateCheck ==
    /\ pc = "rotate"
    /\ IF now - segment_start_time >= SegmentDuration
       THEN pc' = "close" /\ ret' = "rotate"
       ELSE pc' = "handle" /\ UNCHANGED ret
    /\ UNCHANGED <<now, running, event_recording, event_end_time, frame_buffer,
                   segment_start_time, video_writer, segment_file_path, csf, cap,
                   first_frame, frame, sleep_until, wake_pc, close_md, md_handle,
                   nframes, tasks, ntriggers, fs, dirs, sw, stop_pc, peer, http>>

\* the statements after _close_segment_writer returns, by call site
CloseReturn ==
    IF ret = "rotate"
    THEN /\ segment_start_time' = now
         /\ first_frame' = NoFrame
         /\ pc' = "handle"
         /\ UNCHANGED cap
    ELSE /\ cap' = "none"
         /\ pc' = "connect"
         /\ UNCHANGED <<segment_start_time, first_frame>>

\* Raise with no handler in start_processing: the exception ends the coroutine
RaiseEnds ==
    /\ pc' = "done"
    /\ UNCHANGED <<sleep_until, wake_pc>>

\* an exception reaches the handler of start_processing: log, sleep, retry
Raise ==
    /\ pc' = "sleep"
    /\ sleep_until' = now + Backoff
    /\ wake_pc' = "connect"

\* the first-frame lines of the inner loop when cv2.VideoWriter cannot open the sink
\* (no codec, no space): it raises nothing and returns a writer that is not
\* opened, which is stored in self.video_writer; write() on it does nothing
ProcessFrameSinkUnopened ==
    /\ pc = "frame"
    /\ first_frame = NoFrame
    /\ LET p == SegmentPath(CameraId, segment_start_time)
       IN  /\ first_frame' = frame
           /\ video_writer' = Handle(p, InoAt(fs, p, frame))
           /\ segment_file_path' = p
           /\ dirs' = dirs \cup MakeDirs(Dirname(p))
           /\ frame_buffer' = DequeAppend(frame_buffer, [ts |-> now, frame |-> frame])
           /\ frame' = NoFrame
    /\ pc' = "rotate"
    /\ UNCHANGED <<now, running, event_recording, event_end_time,
                   segment_start_time, csf, cap, ret, sleep_until, wake_pc,
                   close_md, md_handle, nframes, tasks, ntriggers, fs, sw, stop_pc, peer, http>>

\* the first-frame lines of the inner loop when os.makedirs raises: first_frame is
\* already set, and the exception goes to the handler of start_processing
ProcessFrameMakedirsFails ==
    /\ pc = "frame"
    /\ first_frame = NoFrame
    /\ first_frame' = frame
    /\ Raise
    /\ UNCHANGED <<now, running, event_recording, event_end_time, frame_buffer,
                   segment_start_time, video_writer, segment_file_path, csf, cap,
                   frame, ret, close_md, md_handle, nframes, tasks, ntriggers, fs,
                   dirs, sw, stop_pc, peer, http>>

\* _close_segment_writer: the release of the writer and the metadata dict
CloseRelease ==
    /\ pc = "close"
    /\ IF video_writer = NoHandle
       THEN /\ CloseReturn
            /\ UNCHANGED <<video_writer, close_md, md_handle>>
       ELSE /\ video_writer' = NoHandle
            /\ close_md' = Metadata(TypeContinuous, segment_start_time, now)
            /\ md_handle' = Handle(StrReplace(segment_file_path, ".mp4", ".json"),
                                   video_writer.ino)
            /\ pc' = "close_open"
            /\ UNCHANGED <<segment_start_time, first_frame, cap>>
    /\ UNCHANGED <<now, running, event_recording, event_end_time, frame_buffer,
                   segment_file_path, csf, frame, ret, sleep_until, wake_pc,
                   nframes, tasks, ntriggers, fs, dirs, sw, stop_pc, peer, http>>

\* _close_segment_writer: open(metadata_file, 'w')
CloseOpenSidecar ==
    /\ pc = "close_open"
    /\ LET mf == md_handle.path
       IN  IF Dirname(mf) \in dirs
           THEN /\ fs' = OpenSidecar(fs, mf, md_handle.ino, close_md)
                /\ md_handle' = Handle(mf, InoAt(fs, mf, md_handle.ino))
                /\ pc' = "close_dump"
                /\ UNCHANGED <<sleep_until, wake_pc>>
           ELSE /\ Raise
                /\ UNCHANGED <<fs, md_handle>>
    /\ UNCHANGED <<now, running, event_recording, event_end_time, frame_buffer,
                   segment_start_time, video_writer, segment_file_path, csf, cap,
                   first_frame, frame, ret, close_md, nframes, tasks, ntriggers, dirs, sw, stop_pc, peer, http>>

\* _close_segment_writer: json.dump, the end of the with block, and the return
CloseDumpSidecar ==
    /\ pc = "close_dump"
    /\ fs' = DumpSidecar(fs, md_handle)
    /\ md_handle' = NoHandle
    /\ segment_file_path' = NoPath
    /\ CloseReturn
    /\ UNCHANGED <<now, running, event_recording, event_end_time, frame_buffer,
                   video_writer, csf, frame, ret, sleep_until, wake_pc, close_md,
                   nframes, tasks, ntriggers, dirs, sw, stop_pc, peer, http>>

\* _handle_event_recording(frame, fps), as [raised, event_recording, event_end_time, csf]
HandleEventRecording(fr) ==
    IF ~event_recording
    THEN [raised |-> FALSE, er |-> event_recording, eet |-> event_end_time, csf |-> csf]
    ELSE IF now >= event_end_time
    THEN [raised |-> FALSE, er |-> FALSE, eet |-> NoneTime,
          csf |-> [set |-> TRUE, frames |-> <<>>]]
    ELSE IF ~csf.set
    THEN [raised |-> TRUE, er |-> event_recording, eet |-> event_end_time, csf |-> csf]
    ELSE [raised |-> FALSE, er |-> event_recording, eet |-> event_end_time,
          csf |-> [set |-> TRUE,
                   frames |-> IF Len(csf.frames) + 1 > EventBufferMax
                              THEN Tail(Append(csf.frames, fr))
                              ELSE Append(csf.frames, fr)]]

\* whether the argument `frame` of the call can be evaluated: del frame unbinds it
FrameBound == frame # NoFrame

\* await self._handle_event_recording(frame, fps), then the pacing sleep
HandleEvent ==
    /\ pc = "handle"
    /\ IF ~FrameBound
       THEN /\ Raise
            /\ UNCHANGED <<event_recording, event_end_time, csf>>
       ELSE LET r == HandleEventRecording(frame)
            IN  /\ event_recording' = r.er
                /\ event_end_time' = r.eet
                /\ csf' = r.csf
                /\ IF r.raised
                   THEN Raise
                   ELSE /\ pc' = "sleep"
                        /\ sleep_until' = now
                        /\ wake_pc' = "read"
    /\ UNCHANGED <<now, running, frame_buffer, segment_start_time, video_writer,
                   segment_file_path, cap, first_frame, frame, ret, close_md,
                   md_handle, nframes, tasks, ntriggers, fs, dirs, sw, stop_pc, peer, http>>

\* the inner loop is left: _close_segment_writer() and cap.release()
AfterLoop ==
    /\ pc = "after_loop"
    /\ pc' = "close"
    /\ ret' = "loop_exit"
    /\ UNCHANGED <<now, running, event_recording, event_end_time, frame_buffer,
                   segment_start_time, video_writer, segment_file_path, csf, cap,
                   first_frame, frame, sleep_until, wake_pc, close_md, md_handle,
                   nframes, tasks, ntriggers, fs, dirs, sw, stop_pc, peer, http>>

\* asyncio.sleep returns
Wake ==
    /\ pc = "sleep"
    /\ EventLoopFree
    /\ now >= sleep_until
    /\ pc' = wake_pc
    /\ sleep_until' = 0
    /\ UNCHANGED <<now, running, event_recording, event_end_time, frame_buffer,
                   segment_start_time, video_writer, segment_file_path, csf, cap,
                   first_frame, frame, ret, wake_pc, close_md,
                   md_handle, nframes, tasks, ntriggers, fs, dirs, sw, stop_pc, peer, http>>

\* TriggerEndTime with the post-event duration forgotten
TriggerEndTimeNoPost(t) == t

\* the end of the event window a trigger at time t sets
TriggerEndTime(t) == t + PostEventDuration

\* whether a trigger submits a pre-event export: executor.submit raises
\* RuntimeError once the executor has been shut down
SubmitsExport == stop_pc = "idle"

\* trigger_event_recording: runs on the event loop, so only while the
\* start_processing coroutine is suspended at an await or not running
TriggerEventRecording ==
    /\ pc \in {"start", "sleep", "done"}
    /\ EventLoopFree
    /\ ntriggers < MaxTriggers
    /\ ntriggers' = ntriggers + 1
    /\ event_end_time' = TriggerEndTime(now)
    /\ event_recording' = TRUE
    /\ tasks' = IF SubmitsExport THEN Append(tasks, Task(ntriggers + 1, now)) ELSE tasks
    /\ UNCHANGED <<now, running, frame_buffer, segment_start_time, video_writer,
                   segment_file_path, csf, cap, first_frame, frame, pc, ret,
                   sleep_until, wake_pc, close_md, md_handle, nframes, fs, dirs,
                   sw, stop_pc>>

\* a trigger of this camera: the processor of the other one is not touched
Trigger == TriggerEventRecording /\ UNCHANGED <<peer, http>>

\* the clock, in whole seconds: a second passes while the coroutine blocks in
\* cv2 (the open, the read), while it sleeps, and once it has ended
ClockAdvances ==
    \/ pc \in {"connect", "read", "done"}
    \/ pc = "sleep" /\ now < sleep_until

TickUpTo(bound) ==
    /\ now < bound
    /\ ClockAdvances
    /\ now' = now + 1
    /\ UNCHANGED <<recorderVars, tasks, ntriggers, fs, dirs, sw, peer, http>>

-----------------------------------------------------------------------------
(* _save_pre_event_buffer, run by a worker thread of the executor *)

\* a worker takes the oldest queued item: the directory, the buffer test,
\* the copy of the buffer and the sink
ExportStart(i) ==
    /\ tasks[i].st = "queued"
    /\ \A j \in 1..(i - 1) : tasks[j].st # "queued"
    /\ Cardinality(Running(tasks)) < MaxWorkers
    /\ LET p == PreEventPath(CameraId, tasks[i].trigger_time)
       IN  /\ dirs' = dirs \cup MakeDirs(Dirname(p))
           /\ IF frame_buffer # <<>>
              THEN /\ fs' = Put(fs, p, VideoFile(InoAt(fs, p, -tasks[i].id)))
                   /\ tasks' = [tasks EXCEPT ![i].st = "writing",
                                  ![i].writer = Handle(p, InoAt(fs, p, -tasks[i].id)),
                                  ![i].frames = [k \in DOMAIN frame_buffer |-> frame_buffer[k].frame]]
              ELSE /\ tasks' = Finished(tasks, i)
                   /\ UNCHANGED fs
    /\ UNCHANGED <<now, recorderVars, ntriggers, sw, peer, http>>

\* PreEventMetadata that takes the trigger for the start of the clip
PreEventMetadataFromTrigger(t) == Metadata(TypePreEvent, t, t + PreEventBuffer)

\* the metadata dict of a pre-event clip
PreEventMetadata(t) == Metadata(TypePreEvent, t - PreEventBuffer, t)

\* the frames are written and the sink is released; then open(metadata_file,
\* 'w'), whose error is caught and logged by the task itself
ExportWrite(i) ==
    /\ tasks[i].st = "writing"
    /\ LET mf == StrReplace(tasks[i].writer.path, ".mp4", ".json")
           written == WriteFrames(fs, tasks[i].writer, tasks[i].frames)
       IN  IF Dirname(mf) \in dirs
           THEN /\ fs' = OpenSidecar(written, mf, -tasks[i].id,
                                     PreEventMetadata(tasks[i].trigger_time))
                /\ tasks' = [tasks EXCEPT ![i].st = "sidecar",
                                          ![i].writer = NoHandle,
                                          ![i].frames = <<>>,
                                          ![i].md = Handle(mf, InoAt(fs, mf, -tasks[i].id))]
           ELSE /\ fs' = written
                /\ tasks' = Finished(tasks, i)
    /\ UNCHANGED <<now, recorderVars, ntriggers, dirs, sw, peer, http>>

\* json.dump and the end of the with block
ExportDumpSidecar(i) ==
    /\ tasks[i].st = "sidecar"
    /\ fs' = DumpSidecar(fs, tasks[i].md)
    /\ tasks' = Finished(tasks, i)
    /\ UNCHANGED <<now, recorderVars, ntriggers, dirs, sw, peer, http>>

Export ==
    \E i \in DOMAIN tasks :
        \/ ExportStart(i)
        \/ ExportWrite(i)
        \/ ExportDumpSidecar(i)

-----------------------------------------------------------------------------
(* StreamProcessor.stop and the end of the event loop *)

\* stop(): called by stop_server on the event loop while the coroutine of
\* start_processing is suspended; running = False, then the shutdown begins
Stop ==
    /\ stop_pc = "idle"
    /\ pc = "sleep"
    /\ running' = FALSE
    /\ stop_pc' = "shutdown"
    /\ UNCHANGED <<now, event_recording, event_end_time, frame_buffer,
                   segment_start_time, video_writer, segment_file_path, csf, cap,
                   first_frame, frame, pc, ret, sleep_until, wake_pc, close_md,
                   md_handle, nframes, tasks, ntriggers, fs, dirs, sw, peer, http>>

\* shutdown that does not wait for the work items
ShutdownNoWait(ts) == TRUE

\* executor.shutdown(wait=True) returns once no work item is queued or running
ShutdownDone(ts) == ts = <<>>

\* stop() returns
StopReturn ==
    /\ stop_pc = "shutdown"
    /\ ShutdownDone(tasks)
    /\ stop_pc' = "returned"
    /\ UNCHANGED <<now, running, event_recording, event_end_time, frame_buffer,
                   segment_start_time, video_writer, segment_file_path, csf, cap,
                   first_frame, frame, pc, ret, sleep_until, wake_pc, close_md,
                   md_handle, nframes, tasks, ntriggers, fs, dirs, sw, peer, http>>

\* main() has returned: asyncio.run cancels the task of start_processing,
\* CancelledError is raised at its await and is no Exception for line 120
Cancel ==
    /\ stop_pc = "returned"
    /\ pc = "sleep"
    /\ pc' = "done"
    /\ UNCHANGED <<now, running, event_recording, event_end_time, frame_buffer,
                   segment_start_time, video_writer, segment_file_path, csf, cap,
                   first_frame, frame, ret, sleep_until, wake_pc, close_md,
                   md_handle, nframes, tasks, ntriggers, fs, dirs, sw, stop_pc, peer, http>>

-----------------------------------------------------------------------------
(* cleanup_recordings.py *)

\* dict.get(key, False) used as a condition
Truthy(v) == v = "true"

\* str.startswith(prefix)
StartsWith(str, prefix) == Len(str) > 0 /\ str[1] = prefix

\* AgeSeconds with a missing end_time taken for the time 0
AgeSecondsSinceEpoch(md) == now - (IF md.has_end THEN md.end_time ELSE 0)

\* get_recording_age_days, in seconds: time.time() - end_time, or 0 when the
\* dict has no end_time or a falsy one
AgeSeconds(md) == IF md.has_end /\ md.end_time # 0 THEN now - md.end_time ELSE 0

\* ShouldDelete with the age test made inclusive
ShouldDeleteAtAge(md, max_age_days) ==
    /\ ~Truthy(md.keep)
    /\ ~StartsWith(md.type, "event")
    /\ AgeSeconds(md) >= max_age_days * DaySeconds

\* should_delete: age_seconds / (24 * 3600) > max_age_days
ShouldDelete(md, max_age_days) ==
    /\ ~Truthy(md.keep)
    /\ ~StartsWith(md.type, "event")
    /\ AgeSeconds(md) > max_age_days * DaySeconds

\* a JSON null where should_delete expects a string
NullType == <<"null">>

\* should_delete raises: rec_type.startswith on a 'type' that is no string
ShouldDeleteRaises(md) == ~Truthy(md.keep) /\ md.type = NullType

\* DryRun with the flag ignored
DryRunIgnored(s) == FALSE

\* the dry_run argument of the sweep
DryRun(s) == s.dry_run

\* TakenBottomUp with the parents first
TakenTopDown(d, order) == \A x \in order : Len(x) >= Len(d)

\* os.walk(base_dir, topdown=False): a directory comes after those below it
TakenBottomUp(d, order) == \A x \in order : Len(x) <= Len(d)

\* Parses accepting a sidecar that is still being written
ParsesLoose(file) == file.fmt \in {"json", "partial"}

\* json.load succeeds on the file
Parses(file) == file.fmt = "json"

\* video_path = metadata_path.replace('.json', '.mp4')
VideoPath(metadata_path) == StrReplace(metadata_path, ".json", ".mp4")

FilesIn(d) == {q \in DOMAIN fs : Dirname(q) = d}
SubDirs(d) == {x \in dirs : Dirname(x) = d}

\* the sweeper's position once the current file is done
AfterFile(files) == IF files = {} THEN "walk" ELSE "file"

\* the max_age_days a sweep is run with: 0 and the default
MaxAgeChoices == {0, DefaultMaxAge}

\* cleanup_recordings(base_dir, max_age_days, dry_run) up to the walk
SweepStart ==
    /\ sw.pc = "idle"
    /\ \E m \in MaxAgeChoices, dry \in BOOLEAN :
         sw' = [sw EXCEPT !.max_age_days = m, !.dry_run = dry,
                          !.pc = IF <<BaseDir>> \in dirs THEN "walk" ELSE "done",
                          !.todo = {<<BaseDir>>}]
    /\ UNCHANGED <<now, recorderVars, tasks, ntriggers, fs, dirs, peer, http>>

\* os.walk(base_dir) lists the next directory; when none is left the first
\* pass is over and the second (bottom-up) walk lists the directories
SweepScan ==
    /\ sw.pc = "walk"
    /\ IF sw.todo = {}
       THEN sw' = [sw EXCEPT !.pc = IF DryRun(sw) THEN "done" ELSE "pass2",
                             !.order = dirs \ {<<BaseDir>>}]
       ELSE \E d \in sw.todo :
              IF d \in dirs
              THEN sw' = [sw EXCEPT !.todo = (sw.todo \ {d}) \cup SubDirs(d),
                                    !.files = FilesIn(d),
                                    !.pc = AfterFile(FilesIn(d))]
              ELSE sw' = [sw EXCEPT !.todo = sw.todo \ {d}]
    /\ UNCHANGED <<now, recorderVars, tasks, ntriggers, fs, dirs, peer, http>>

\* the body of the loop over files, up to the removals
SweepVisit ==
    /\ sw.pc = "file"
    /\ \E p \in sw.files :
         LET rest == sw.files \ {p}
             skip == [sw EXCEPT !.files = rest, !.pc = AfterFile(rest)]
         IN  IF ~EndsWith(p, ".json")
             THEN sw' = skip
             ELSE IF p \notin DOMAIN fs
             THEN sw' = skip
             ELSE IF ~Parses(fs[p])
             THEN sw' = skip
             ELSE IF ShouldDeleteRaises(fs[p].md)
             THEN sw' = skip
             ELSE IF ShouldDelete(fs[p].md, sw.max_age_days)
             THEN IF DryRun(sw)
                  THEN sw' = [skip EXCEPT !.deleted_count = @ + 1]
                  ELSE sw' = [sw EXCEPT !.files = rest, !.pc = "rm_video", !.cur = p,
                                        !.size = IF VideoPath(p) \in DOMAIN fs THEN 1 ELSE 0]
             ELSE sw' = [skip EXCEPT !.kept_count = @ + 1]
    /\ UNCHANGED <<now, recorderVars, tasks, ntriggers, fs, dirs, peer, http>>

\* if os.path.exists(video_path): os.remove(video_path)
SweepRemoveVideo ==
    /\ sw.pc = "rm_video"
    /\ fs' = IF VideoPath(sw.cur) \in DOMAIN fs THEN Remove(fs, VideoPath(sw.cur)) ELSE fs
    /\ sw' = [sw EXCEPT !.pc = "rm_meta"]
    /\ UNCHANGED <<now, recorderVars, tasks, ntriggers, dirs, peer, http>>

\* os.remove(metadata_path); a missing file raises, which is logged
SweepRemoveSidecar ==
    /\ sw.pc = "rm_meta"
    /\ IF sw.cur \in DOMAIN fs
       THEN /\ fs' = Remove(fs, sw.cur)
            /\ sw' = [sw EXCEPT !.pc = AfterFile(sw.files), !.cur = NoPath, !.size = 0,
                                !.deleted_count = @ + 1]
       ELSE /\ fs' = fs
            /\ sw' = [sw EXCEPT !.pc = AfterFile(sw.files), !.cur = NoPath, !.size = 0]
    /\ UNCHANGED <<now, recorderVars, tasks, ntriggers, dirs, peer, http>>

\* the second walk, children before parents: rmdir of a directory that
\* os.listdir finds empty
SweepRmdir ==
    /\ sw.pc = "pass2"
    /\ IF sw.order = {}
       THEN /\ sw' = [sw EXCEPT !.pc = "done"]
            /\ UNCHANGED dirs
       ELSE \E d \in sw.order :
              /\ TakenBottomUp(d, sw.order)
              /\ sw' = [sw EXCEPT !.order = sw.order \ {d}]
              /\ dirs' = IF d \in dirs /\ FilesIn(d) = {} /\ SubDirs(d) = {}
                         THEN dirs \ {d}
                         ELSE dirs
    /\ UNCHANGED <<now, recorderVars, tasks, ntriggers, fs, peer, http>>

Sweeper ==
    \/ SweepStart
    \/ SweepScan
    \/ SweepVisit
    \/ SweepRemoveVideo
    \/ SweepRemoveSidecar
    \/ SweepRmdir

-----------------------------------------------------------------------------
(* CameraServer: a second camera. start_server creates one task per
   processor on the one event loop, so a coroutine runs from one await to the
   next with nothing else in between, and nothing runs on the loop while a
   coroutine is inside a blocking call of cv2. The second processor is the
   same code, taken here in whole passes from one await to the next. *)

\* the coroutine of this camera is suspended at an await, or not running
Suspended == pc \in {"start", "sleep", "done"}

\* the coroutine of the second camera is suspended at an await
PeerSuspended == peer.pc \in {"start", "sleep", "done"}

\* _close_segment_writer of the second camera, as [fs, peer]
PeerClose(fsys, pr) ==
    IF pr.video_writer = NoHandle
    THEN [fs |-> fsys, peer |-> pr]
    ELSE LET mf == StrReplace(pr.segment_file_path, ".mp4", ".json")
         IN  [fs |-> Put(fsys, mf, [fmt |-> "json", ino |-> InoAt(fsys, mf, pr.video_writer.ino),
                                    frames |-> <<>>,
                                    md |-> Metadata(TypeContinuous, pr.segment_start_time, now)]),
              peer |-> [pr EXCEPT !.video_writer = NoHandle, !.segment_file_path = NoPath]]

\* start_processing of the second camera, up to the while loop
PeerStartProcessing ==
    /\ peer.pc = "start"
    /\ Suspended
    /\ EventLoopFree
    /\ peer' = [peer EXCEPT !.running = TRUE, !.pc = "connect"]
    /\ UNCHANGED <<now, recorderVars, tasks, ntriggers, fs, dirs, sw, http>>

\* the connection attempt of the second camera, which is taken to be
\* reachable: its open succeeds, its reads may fail
PeerConnect ==
    /\ peer.pc = "connect"
    /\ peer' = [peer EXCEPT !.segment_start_time = now, !.pc = "read"]
    /\ UNCHANGED <<now, recorderVars, tasks, ntriggers, fs, dirs, sw, http>>

\* cap.read() of the second camera and the body of its inner loop: a frame
\* opens the segment, is pushed and written, the segment-complete test, and
\* the tick of the event window, which raises on the deleted frame; a failed
\* read closes the segment and goes back to the connection attempt
PeerFrame ==
    /\ peer.pc = "read"
    /\ \E got \in BOOLEAN :
         IF got /\ peer.nframes < CamsMaxFrames
         THEN LET f == peer.nframes + 1
                  p == SegmentPath(PeerId, peer.segment_start_time)
                  w == Handle(p, InoAt(fs, p, f))
                  opened == [peer EXCEPT !.nframes = f,
                                         !.video_writer = w,
                                         !.segment_file_path = p,
                                         !.frame_buffer = DequeAppend(@, [ts |-> now, frame |-> f])]
                  written == WriteFrames(Put(fs, p, VideoFile(w.ino)), w, <<f>>)
                  c == IF now - peer.segment_start_time >= SegmentDuration
                       THEN PeerClose(written, opened)
                       ELSE [fs |-> written, peer |-> opened]
              IN  /\ fs' = c.fs
                  /\ dirs' = dirs \cup MakeDirs(Dirname(p))
                  /\ peer' = [c.peer EXCEPT
                                !.segment_start_time =
                                    IF now - peer.segment_start_time >= SegmentDuration
                                    THEN now ELSE @,
                                !.pc = "sleep",
                                !.sleep_until = now + Backoff]
         ELSE /\ fs' = PeerClose(fs, peer).fs
              /\ peer' = [PeerClose(fs, peer).peer EXCEPT !.pc = "connect"]
              /\ UNCHANGED dirs
    /\ UNCHANGED <<now, recorderVars, tasks, ntriggers, sw, http>>

\* the end of the asyncio.sleep of the second camera
PeerWake ==
    /\ peer.pc = "sleep"
    /\ now >= peer.sleep_until
    /\ Suspended
    /\ EventLoopFree
    /\ peer' = [peer EXCEPT !.pc = "connect"]
    /\ UNCHANGED <<now, recorderVars, tasks, ntriggers, fs, dirs, sw, http>>

PeerLoop ==
    \/ PeerStartProcessing
    \/ PeerConnect
    \/ PeerFrame
    \/ PeerWake

\* trigger_event_recording of the second camera
PeerTriggered ==
    [peer EXCEPT !.event_end_time = TriggerEndTime(now),
                 !.event_recording = TRUE,
                 !.ntriggers = @ + 1]

\* the camera ids of the config, and one that is not in it
Cameras == {CameraId, PeerId}
CameraIds == Cameras \cup {"cam0"}

\* Addressed with every processor taken for every camera id
AddressedAll(camera_id, processor) == TRUE

\* self.stream_processors[camera_id]: the processor a camera id stands for
Addressed(camera_id, processor) == camera_id = processor

\* Known with a processor taken to exist for every camera id
KnownAny(camera_id) == TRUE

\* camera_id in self.stream_processors
Known(camera_id) == camera_id \in Cameras

\* the branch on the camera id that _on_event_detected and the two HTTP
\* handlers share: trigger_event_recording of the processor the id stands
\* for, and nothing for an id without a processor. It runs on the event loop.
\* The Shinobi call that follows is a blocking request, whose result is only
\* logged.
Dispatch(camera_id) ==
    /\ Suspended
    /\ PeerSuspended
    /\ IF Known(camera_id)
       THEN /\ IF Addressed(camera_id, CameraId)
               THEN TriggerEventRecording
               ELSE UNCHANGED <<now, recorderVars, tasks, ntriggers, fs, dirs, sw>>
            /\ IF Addressed(camera_id, PeerId)
               THEN peer.ntriggers < CamsMaxTriggers /\ peer' = PeerTriggered
               ELSE UNCHANGED peer
       ELSE UNCHANGED <<now, recorderVars, tasks, ntriggers, fs, dirs, sw, peer>>

\* _on_event_detected(camera_id, ...): the callback of the ONVIF monitor
OnEventDetected(camera_id) ==
    /\ Dispatch(camera_id)
    /\ UNCHANGED http

\* what ShinobiClient.trigger_event_recording returns: whether the request
\* went through and the answer has a true 'ok'
ShinobiResults == BOOLEAN

\* web.json_response of the handlers: the status code, the 'status' of the
\* body, and the request it answers
JsonResponse(kind, camera_id, shinobi_result) ==
    IF Known(camera_id)
    THEN [code |-> 200, status |-> "success", kind |-> kind,
          camera_id |-> camera_id, shinobi |-> IF shinobi_result THEN "ok" ELSE "failed"]
    ELSE [code |-> 404, status |-> "error", kind |-> kind,
          camera_id |-> camera_id, shinobi |-> "not called"]

\* handle_motion_event
HandleMotionEvent(camera_id, shinobi_result) ==
    /\ Dispatch(camera_id)
    /\ http' = JsonResponse("Motion", camera_id, shinobi_result)

\* handle_alarm_event
HandleAlarmEvent(camera_id, shinobi_result) ==
    /\ Dispatch(camera_id)
    /\ http' = JsonResponse("Alarm", camera_id, shinobi_result)

-----------------------------------------------------------------------------
(* Specifications *)

Tick == TickUpTo(MaxTime)

LoopTick == TickUpTo(LoopMaxTime)

FrameLoop ==
    \/ StartProcessing
    \/ Connect
    \/ ReadFrame
    \/ ProcessFrame
    \/ RotateCheck
    \/ CloseRelease
    \/ CloseOpenSidecar
    \/ CloseDumpSidecar
    \/ HandleEvent
    \/ AfterLoop
    \/ Wake

\* one camera's recorder: the frame loop, the triggers and the export workers
Next ==
    \/ FrameLoop
    \/ Trigger
    \/ Export
    \/ Tick

Spec == Init /\ [][Next]_vars

\* the frame loop alone, over a longer time
LoopNext ==
    \/ FrameLoop
    \/ LoopTick

SpecLoop == Init /\ [][LoopNext]_vars

\* the frame loop on a disk where the creation of a sink may fail
SinkNext ==
    \/ FrameLoop
    \/ ProcessFrameSinkUnopened
    \/ ProcessFrameMakedirsFails
    \/ LoopTick

SpecSink == Init /\ [][SinkNext]_vars

StopTick == TickUpTo(StopMaxTime)

StopTrigger == ntriggers < StopMaxTriggers /\ Trigger

\* the recorder with its triggers and exports, shut down at some moment
StopNext ==
    \/ FrameLoop
    \/ StopTrigger
    \/ Export
    \/ Stop
    \/ StopReturn
    \/ Cancel
    \/ StopTick

SpecStop == Init /\ [][StopNext]_vars

LiveTick == TickUpTo(LiveMaxTime)

\* the frame loop and its shutdown
LiveNext ==
    \/ FrameLoop
    \/ Stop
    \/ StopReturn
    \/ Cancel
    \/ LiveTick

\* the event loop runs the coroutine whenever it can go on, and time passes
SpecLive == Init /\ [][LiveNext]_vars /\ WF_vars(FrameLoop) /\ WF_vars(LiveTick)

\* seconds pass between any two steps of the recorder and the sweeper
ConcTick ==
    /\ now < ConcMaxTime
    /\ now' = now + 1
    /\ UNCHANGED <<recorderVars, tasks, ntriggers, fs, dirs, sw, peer, http>>

\* the frame loop with a sweep of the same tree running beside it
ConcNext ==
    \/ FrameLoop
    \/ Sweeper
    \/ ConcTick

SpecConc == Init /\ [][ConcNext]_vars

\* the recorder is started in the last second of a day
Midnight == DaySeconds

InitMidnight ==
    /\ now = Midnight - 1
    /\ InitRecorder
    /\ fs = <<>>
    /\ dirs = {<<BaseDir>>}
    /\ InitSweeperIdle

MidnightTick == TickUpTo(Midnight + MidnightMaxTime)

MidnightTrigger == ntriggers < MidnightMaxTriggers /\ Trigger

\* the recorder with a trigger and its export over the turn of a day
MidnightNext ==
    \/ FrameLoop
    \/ MidnightTrigger
    \/ Export
    \/ MidnightTick

SpecMidnight == InitMidnight /\ [][MidnightNext]_vars

\* this camera's loop gets the event loop only while the other one is suspended
CamsFrameLoop == PeerSuspended /\ FrameLoop

CamsTrigger ==
    \E camera_id \in CameraIds : ntriggers < CamsMaxTriggers /\ OnEventDetected(camera_id)

\* a second passes while a coroutine blocks the event loop in cv2, or while
\* the event loop has nothing to run: every coroutine sleeps or has ended
CamsClockAdvances ==
    \/ pc \in {"connect", "read"}
    \/ peer.pc \in {"connect", "read"}
    \/ /\ pc = "done" \/ (pc = "sleep" /\ now < sleep_until)
       /\ peer.pc = "done" \/ (peer.pc = "sleep" /\ now < peer.sleep_until)

CamsTick ==
    /\ now < CamsMaxTime
    /\ CamsClockAdvances
    /\ now' = now + 1
    /\ UNCHANGED <<recorderVars, tasks, ntriggers, fs, dirs, sw, peer, http>>

\* two cameras on the event loop of the server, and their triggers
CamsNext ==
    \/ CamsFrameLoop
    \/ PeerLoop
    \/ CamsTrigger
    \/ CamsTick

SpecCams == Init /\ [][CamsNext]_vars

\* a request of the HTTP API: POST /api/events/motion or /api/events/alarm
ApiMotion ==
    \E camera_id \in CameraIds, shinobi_result \in ShinobiResults :
        ntriggers < CamsMaxTriggers /\ HandleMotionEvent(camera_id, shinobi_result)

ApiAlarm ==
    \E camera_id \in CameraIds, shinobi_result \in ShinobiResults :
        ntriggers < CamsMaxTriggers /\ HandleAlarmEvent(camera_id, shinobi_result)

ApiTick ==
    /\ now < ApiMaxTime
    /\ CamsClockAdvances
    /\ now' = now + 1
    /\ UNCHANGED <<recorderVars, tasks, ntriggers, fs, dirs, sw, peer, http>>

\* two cameras, the ONVIF callback and the HTTP API, in the first seconds of
\* the server: the second camera does not come out of its first backoff
ApiNext ==
    \/ CamsFrameLoop
    \/ PeerStartProcessing
    \/ PeerConnect
    \/ PeerFrame
    \/ CamsTrigger
    \/ ApiMotion
    \/ ApiAlarm
    \/ ApiTick

SpecApi == Init /\ [][ApiNext]_vars

\* the time after a run long enough to fill the frame buffer, one frame in
\* every backoff
LongRun == (BufferMaxLen + 1) * Backoff

\* the frame buffer n frames into such a run: the frames before the ones
\* counted by nframes, numbered -n .. -1
BufferAfter(n) ==
    [k \in 1..n |-> [ts |-> LongRun - (n - k + 1) * Backoff, frame |-> k - n - 1]]

\* the recorder at the end of a backoff sleep, about to connect again, with
\* a buffer that is empty, one short of full, or full
InitLongRun ==
    /\ now = LongRun
    /\ \E n \in {0, BufferMaxLen - 1, BufferMaxLen} : frame_buffer = BufferAfter(n)
    /\ peer = PeerIdle
    /\ http = NoResponse
    /\ running = TRUE
    /\ event_recording = FALSE
    /\ event_end_time = NoneTime
    /\ segment_start_time = NoneTime
    /\ video_writer = NoHandle
    /\ segment_file_path = NoPath
    /\ csf = [set |-> FALSE, frames |-> <<>>]
    /\ cap = "none"
    /\ first_frame = NoFrame
    /\ frame = NoFrame
    /\ pc = "connect"
    /\ ret = "none"
    /\ sleep_until = LongRun
    /\ wake_pc = "connect"
    /\ close_md = NoMetadata
    /\ md_handle = NoHandle
    /\ nframes = 0
    /\ tasks = <<>>
    /\ ntriggers = 0
    /\ stop_pc = "idle"
    /\ fs = <<>>
    /\ dirs = {<<BaseDir>>}
    /\ InitSweeperIdle

LongRunTick == TickUpTo(LongRun + LoopMaxTime)

\* the frame loop late in a long run: start_processing is long past
LongRunNext ==
    \/ Connect
    \/ ReadFrame
    \/ ProcessFrame
    \/ RotateCheck
    \/ CloseRelease
    \/ CloseOpenSidecar
    \/ CloseDumpSidecar
    \/ HandleEvent
    \/ AfterLoop
    \/ Wake
    \/ LongRunTick

SpecLongRun == InitLongRun /\ [][LongRunNext]_vars

\* the time of the sweep of a tree that recorders left behind
SweepNow == 10 * DaySeconds

\* an age in seconds at the max_age_days limit, and one past it
AgeChoices == {DefaultMaxAge * DaySeconds, DefaultMaxAge * DaySeconds + 1}

\* a sidecar as _close_segment_writer writes it, for a segment that ended
\* age seconds ago
SegmentSidecar(age) ==
    Metadata(TypeContinuous, SweepNow - age - SegmentDuration, SweepNow - age)

OldSegment == SegmentSidecar(DefaultMaxAge * DaySeconds + 1)

\* the metadata dicts found in the tree: written by the recorder, or edited
\* by hand (keep, retain, another type, end_time missing or 0)
MetadataChoices ==
    {SegmentSidecar(a) : a \in AgeChoices}
    \cup {PreEventMetadata(SweepNow - DefaultMaxAge * DaySeconds - 1)}
    \cup {[OldSegment EXCEPT !.keep = k] : k \in {"true", "false"}}
    \cup {[OldSegment EXCEPT !.retain = "true"],
          [OldSegment EXCEPT !.type = <<"event", "_clip">>],
          [OldSegment EXCEPT !.type = NullType],
          [OldSegment EXCEPT !.has_end = FALSE],
          [OldSegment EXCEPT !.type = TypePreEvent, !.has_end = FALSE],
          [OldSegment EXCEPT !.end_time = 0]}

\* what may be found at a sidecar's path: nothing, a file that is no JSON
\* document, or a metadata dict
SidecarChoices ==
    {[fmt |-> "none", md |-> NoMetadata], [fmt |-> "partial", md |-> NoMetadata]}
    \cup {[fmt |-> "json", md |-> m] : m \in MetadataChoices}

CamDir == <<BaseDir, "/", CameraId>>
DateDir == CamDir \o <<"/", "0">>
JsonDir == <<BaseDir, "/", "a", ".json">>
Mp4Dir == <<BaseDir, "/", "a", ".mp4">>

\* the files a choice of sidecar and video puts at dir/stem.json, dir/stem.mp4
Pair(d, stem, sc, video) ==
    LET j == d \o <<"/", stem, ".json">>
        v == d \o <<"/", stem, ".mp4">>
        f0 == <<>>
        f1 == IF sc.fmt = "none" THEN f0
              ELSE Put(f0, j, [fmt |-> sc.fmt, ino |-> 0, frames |-> <<>>, md |-> sc.md])
    IN  IF video THEN Put(f1, v, VideoFile(0)) ELSE f1

Merge(f, g) == [q \in DOMAIN f \cup DOMAIN g |-> IF q \in DOMAIN f THEN f[q] ELSE g[q]]

\* what stands beside the video in the directory whose name ends in .mp4:
\* no such directories at all, no sidecar, a sidecar with keep set, or a
\* sidecar that is no JSON document; or ("beside") no such directory, and the
\* video in the directory whose name ends in .json, beside the sidecar there
OddChoices == {"none", "orphan", "kept", "broken", "beside"}

OddSidecar(odd) ==
    IF odd = "kept" THEN [fmt |-> "json", md |-> [OldSegment EXCEPT !.keep = "true"]]
    ELSE IF odd = "broken" THEN [fmt |-> "partial", md |-> NoMetadata]
    ELSE [fmt |-> "none", md |-> NoMetadata]

\* a tree under base_dir: a pair in a camera directory, a pair in a date
\* directory below it and, or not, a directory whose name ends in .json
\* beside one whose name ends in .mp4
InitSweep ==
    /\ now = SweepNow
    /\ InitRecorder
    /\ InitSweeperIdle
    /\ \E a \in SidecarChoices, b \in SidecarChoices, va \in BOOLEAN, vb \in BOOLEAN,
          odd \in OddChoices :
         /\ fs = Merge(Merge(Pair(CamDir, "a", a, va), Pair(DateDir, "b", b, vb)),
                       IF odd = "none" THEN <<>>
                       ELSE IF odd = "beside"
                       THEN Pair(JsonDir, "x", [fmt |-> "json", md |-> OldSegment], TRUE)
                       ELSE Merge(Pair(JsonDir, "x", [fmt |-> "json", md |-> OldSegment], FALSE),
                                  Pair(Mp4Dir, "x", OddSidecar(odd), TRUE)))
         /\ dirs = {<<BaseDir>>, CamDir, DateDir}
                   \cup (IF odd = "none" THEN {}
                         ELSE IF odd = "beside" THEN {JsonDir}
                         ELSE {JsonDir, Mp4Dir})

SpecSweep == InitSweep /\ [][Sweeper]_vars

-----------------------------------------------------------------------------
(* Properties *)

Max(a, b) == IF a >= b THEN a ELSE b

Range(f) == {f[i] : i \in DOMAIN f}

Sidecars == {p \in DOMAIN fs : EndsWith(p, ".json")}

\* the video file a sidecar stands for
VideoOf(p) == StrReplace(p, ".json", ".mp4")

\* [s1, e1) and [s2, e2) overlap
Overlaps(s1, e1, s2, e2) == s1 < e2 /\ s2 < e1

\* C1: a sidecar on disk, partial or complete, refers to a video file that no
\* writer holds open: the sidecar is created only after the release.
C1_SidecarImpliesClosed ==
    \A p \in Sidecars : VideoOf(p) \notin OpenForWriting

\* C6: a continuous segment that closes after the trigger of the current
\* event window and overlaps [trigger_time - lookback, end_time) has
\* retain = true in its committed sidecar.
C6_OverlappingSegmentRetained ==
    \A p \in Sidecars :
        (/\ fs[p].fmt = "json"
         /\ fs[p].md.type = TypeContinuous
         /\ event_recording
         /\ fs[p].md.end_time > event_end_time - PostEventDuration
         /\ Overlaps(fs[p].md.start_time, fs[p].md.end_time,
                     event_end_time - PostEventDuration - PreEventBuffer, event_end_time))
        => fs[p].md.retain = "true"

\* C7: while the event window is active no step submits a pre-event export:
\* a trigger on an active window starts no second export.
C7_NoExportWhileActive ==
    [][event_recording => Len(tasks') <= Len(tasks)]_vars

\* C8: a trigger on an active window leaves it active with
\* end_time = max(previous end_time, trigger time + post_duration), so no
\* trigger moves end_time earlier.
C8_TriggerExtendsToMax ==
    [][(ntriggers' = ntriggers + 1 /\ event_recording)
        => (/\ event_recording'
            /\ event_end_time' = Max(event_end_time, now + PostEventDuration)
            /\ event_end_time' >= event_end_time)]_vars

\* C8 witness: a second trigger has acted on the window the first one opened,
\* later than the first.
C8_Witness ==
    /\ ntriggers >= 2
    /\ event_recording
    /\ event_end_time = now + PostEventDuration
    /\ \E p \in DOMAIN fs : fs[p].md.type = TypePreEvent /\ fs[p].md.end_time < now

\* C9: the frame-loop tick (the call of _handle_event_recording) of a frame
\* at a time now >= end_time leaves the window inactive.
C9_TickDeactivates ==
    [][(pc = "handle" /\ pc' # "handle" /\ event_recording /\ now >= event_end_time)
        => ~event_recording']_vars

\* the frames the loop has passed through its write
Processed == {f \in 1..nframes : f < nframes \/ pc # "frame"}

SegmentVideos == {p \in DOMAIN fs : fs[p].fmt = "video" /\ "segment_" \in Range(p)}

FilesWith(f) == {p \in SegmentVideos : f \in Range(fs[p].frames)}

\* C10: every frame read is written to exactly one segment, once; the frame
\* on which the rotation is detected is the last of the segment being closed;
\* and the frame read after a committed segment's last frame is the first
\* frame of another segment.
C10_NoFrameLostAtRotation ==
    /\ \A f \in Processed :
          /\ Cardinality(FilesWith(f)) = 1
          /\ \A p \in FilesWith(f) :
                Cardinality({i \in DOMAIN fs[p].frames : fs[p].frames[i] = f}) = 1
    /\ (pc = "close" /\ ret = "rotate")
          => /\ video_writer # NoHandle
             /\ fs[video_writer.path].frames # <<>>
             /\ fs[video_writer.path].frames[Len(fs[video_writer.path].frames)] = nframes
    /\ \A p \in SegmentVideos :
          (/\ VideoOf(p) = p
           /\ StrReplace(p, ".mp4", ".json") \in DOMAIN fs
           /\ fs[p].frames # <<>>)
          => LET last == fs[p].frames[Len(fs[p].frames)]
             IN  (last + 1) \in Processed
                   => \E q \in SegmentVideos \ {p} : fs[q].frames[1] = last + 1

\* C10 witness: frame 1 closed its segment by rotation (committed sidecar) and
\* frame 2 has been written as the first frame of the next segment.
C10_Witness ==
    \E p, q \in SegmentVideos :
        /\ p # q
        /\ fs[p].frames = <<1>>
        /\ StrReplace(p, ".mp4", ".json") \in DOMAIN fs
        /\ fs[StrReplace(p, ".mp4", ".json")].fmt = "json"
        /\ fs[StrReplace(p, ".mp4", ".json")].md.duration >= SegmentDuration
        /\ fs[q].frames = <<2>>

\* the files a step removes from the tree
Removed == DOMAIN fs \ DOMAIN fs'

\* the sidecar beside a video: the same directory and stem, suffix .json
SidecarBeside(p) == SubSeq(p, 1, Len(p) - 1) \o <<".json">>

IsSegmentVideo(p) == Len(p) > 2 /\ p[Len(p) - 2] = "segment_" /\ EndsWith(p, ".mp4")

\* C2: with a sweep running beside the recorder, no step removes the video of
\* a segment whose sink is still open or whose sidecar is not completely
\* written.
C2_SweepSparesUncommitted ==
    [][\A p \in Removed :
         IsSegmentVideo(p) =>
           /\ p \notin OpenForWriting
           /\ SidecarBeside(p) \in DOMAIN fs
           /\ fs[SidecarBeside(p)].fmt = "json"]_vars

\* a sweep has just removed a segment's video while the recorder holds a sink open
C2_Witness ==
    /\ sw.pc = "rm_meta"
    /\ sw.size = 1
    /\ IsSegmentVideo(VideoPath(sw.cur))
    /\ VideoPath(sw.cur) \notin DOMAIN fs
    /\ video_writer # NoHandle

\* C3: no step of a sweep removes a video that has no sidecar beside it.
C3_OrphanVideoKept ==
    [][\A p \in Removed : EndsWith(p, ".mp4") => SidecarBeside(p) \in DOMAIN fs]_vars

\* the exemption flag of a sidecar as the sweeper reads it (the key 'keep')
Exempt(md) == Truthy(md.keep)

\* the sidecar the sweeper takes from its file list in this step
Visited == sw.files \ sw'.files

\* a step of a sweep that is no dry run decides a parsed sidecar p, on which
\* should_delete does not raise, for deletion exactly when cond(md) holds;
\* then the video path it derives from p and p itself are removed, and
\* nothing else ever is
DeletesExactlyWhen(cond(_)) ==
    /\ \A p \in Visited :
         (sw.pc = "file" /\ ~sw.dry_run /\ EndsWith(p, ".json")
            /\ p \in DOMAIN fs /\ Parses(fs[p]) /\ ~ShouldDeleteRaises(fs[p].md))
         => ((sw'.pc = "rm_video" /\ sw'.cur = p) <=> cond(fs[p].md))
    /\ sw.pc = "rm_video" => VideoPath(sw.cur) \notin DOMAIN fs'
    /\ sw.pc = "rm_meta" => sw.cur \notin DOMAIN fs'
    /\ \A p \in Removed :
         \/ sw.pc = "rm_video" /\ p = VideoPath(sw.cur)
         \/ sw.pc = "rm_meta" /\ p = sw.cur

Expired(md) == AgeSeconds(md) > sw.max_age_days * DaySeconds

ExpiredAndNotExempt(md) == ~Exempt(md) /\ Expired(md)

ExpiredNotExemptNotEvent(md) ==
    ~Exempt(md) /\ ~StartsWith(md.type, "event") /\ Expired(md)

IsPreEventSidecar(p) ==
    /\ EndsWith(p, ".json")
    /\ fs[p].fmt = "json"
    /\ fs[p].md.type = TypePreEvent
    /\ fs[p].md.keep = Absent

\* C5: no step removes a pre_event sidecar written by the recorder, or the
\* video beside it.
C5_PreEventNeverDeleted ==
    [][\A p \in DOMAIN fs :
         IsPreEventSidecar(p) => (p \notin Removed /\ VideoPath(p) \notin Removed)]_vars

\* C11: a segment writer is opened only when no writer is open: the previous
\* one has been closed (and its sidecar written) before; no step replaces a
\* writer that is still open.
C11_WriterOpenedOnlyWhenClosed ==
    [][(video_writer' # video_writer /\ video_writer' # NoHandle)
        => video_writer = NoHandle]_vars

\* the continuous segments that are closed, with a complete sidecar
CommittedSegments ==
    {p \in Sidecars : fs[p].fmt = "json" /\ fs[p].md.type = TypeContinuous}

\* every frame so far was delivered no later than Backoff after the one before
FramesKeepArriving ==
    \A k \in 1..(Len(frame_buffer) - 1) :
        frame_buffer[k + 1].ts - frame_buffer[k].ts <= Backoff

\* C12: when a frame has just been written, D seconds after the first frame
\* of a stream whose frames keep arriving, at least D div S - 1 continuous
\* segments are closed with a committed sidecar (S the segment duration).
C12_RotationCount ==
    (pc = "handle" /\ frame_buffer # <<>> /\ FramesKeepArriving)
    => Cardinality(CommittedSegments)
         >= ((now - frame_buffer[1].ts) \div SegmentDuration) - 1

\* C13: the tick of the event window, the last step of processing a frame
\* that was read, pushed and written, is followed by the pacing sleep and
\* the read of the next frame from the same connection.
C13_FrameKeepsStreaming ==
    [][(pc = "handle" /\ pc' # "handle")
        => (pc' = "sleep" /\ wake_pc' = "read" /\ cap' = "open")]_vars

\* C14: right after a push every entry of the frame buffer is at most
\* pre_event_buffer seconds old.
C14_BufferBoundedByAge ==
    pc = "rotate"
    => \A k \in DOMAIN frame_buffer : now - frame_buffer[k].ts <= PreEventBuffer

\* C15: the frames an export writes were in the frame buffer at the instant
\* of its trigger: none of them was pushed at a later time.
C15_SnapshotAtTrigger ==
    \A i \in DOMAIN tasks :
        \A k \in DOMAIN tasks[i].frames :
            \A e \in Range(frame_buffer) :
                e.frame = tasks[i].frames[k] => e.ts <= tasks[i].trigger_time

\* C16: whenever the loop is about to make a connection attempt, no segment
\* writer is open and the previous capture has been released.
C16_ClosedBeforeReconnect ==
    pc = "connect" => (video_writer = NoHandle /\ cap = "none")

\* C17: the loop comes to a connection attempt only from its start or from
\* the end of a backoff sleep.
C17_BackoffBeforeReconnect ==
    [][pc' = "connect" => pc \in {"start", "sleep", "connect"}]_vars

\* C19: once the coroutine of start_processing has ended, no segment writer
\* is left open.
C19_NoOpenSegmentAfterShutdown ==
    pc = "done" => video_writer = NoHandle

\* C20: once stop() has returned no pre-event export is queued or running:
\* those submitted before have finished and none is started afterwards.
C20_StopWaitsForExports ==
    stop_pc = "returned" => tasks = <<>>

\* stop() has returned, in the second of the trigger, after the export of
\* that trigger wrote its clip and committed its sidecar
C20_Witness ==
    /\ stop_pc = "returned"
    /\ ntriggers = 1
    /\ \E p \in Sidecars :
          /\ fs[p].fmt = "json"
          /\ fs[p].md.type = TypePreEvent
          /\ fs[p].md.end_time = now
          /\ fs[VideoOf(p)].frames # <<>>

\* C18: the loop has ended only if running is false; and while running is
\* true, a backoff sleep after an open failure or an exception (one that ends
\* within the time modelled) and a read failure are each followed by the
\* loop being at its next connection attempt.
C18_LoopRetriesUntilStopped ==
    /\ [](pc = "done" => ~running)
    /\ ((running /\ pc = "sleep" /\ wake_pc = "connect" /\ sleep_until <= LiveMaxTime)
          ~> (pc = "connect" \/ ~running))
    /\ ((running /\ pc = "after_loop") ~> (pc = "connect" \/ ~running))

\* the loop is at a connection attempt again after an exception and its
\* backoff, still running
C18_Witness ==
    /\ pc = "connect"
    /\ running
    /\ nframes >= 1
    /\ cap = "open"
    /\ now >= Backoff

\* C23: a sweep started with dry_run set changes nothing in the storage tree:
\* no step of it removes, adds or alters a file, or removes a directory,
\* whatever the tree holds and whatever max_age_days is.
C23_DryRunChangesNothing ==
    [][(sw.pc # "idle" /\ sw.dry_run) => (fs' = fs /\ dirs' = dirs)]_vars

\* a finished dry run that reported two sidecars for deletion, with the
\* whole tree still in place
C23_Witness ==
    /\ sw.pc = "done"
    /\ sw.dry_run
    /\ sw.deleted_count = 2
    /\ \E p \in DOMAIN fs :
         /\ EndsWith(p, ".json") /\ Parses(fs[p])
         /\ ShouldDelete(fs[p].md, sw.max_age_days)
         /\ VideoPath(p) \in DOMAIN fs
    /\ {CamDir, DateDir, JsonDir, Mp4Dir} \subseteq dirs

\* the sidecar at p is one the sweep cannot process: json.load fails on it or
\* should_delete raises on its content
Unprocessable(p) ==
    /\ p \in DOMAIN fs
    /\ EndsWith(p, ".json")
    /\ (~Parses(fs[p]) \/ ShouldDeleteRaises(fs[p].md))

KeepSet(p) ==
    /\ p \in DOMAIN fs
    /\ EndsWith(p, ".json")
    /\ Parses(fs[p])
    /\ Truthy(fs[p].md.keep)

\* C29: no step of a sweep removes a sidecar that has keep set, nor the video
\* beside such a sidecar, whatever its type, its age and max_age_days.
C29_KeepNeverDeleted ==
    [][\A p \in Removed :
         /\ ~KeepSet(p)
         /\ EndsWith(p, ".mp4") => ~KeepSet(SidecarBeside(p))]_vars

\* the directory d holds neither a file nor a directory
EmptyDir(d) == FilesIn(d) = {} /\ SubDirs(d) = {}

\* C25: a sweep removes only directories that are empty at that moment, never
\* the root, and when a sweep that is no dry run has finished no empty
\* directory is left below the root, a directory that held nothing but
\* emptied directories included.
C25_EmptyDirsRemovedBottomUp ==
    [][/\ \A d \in dirs \ dirs' : EmptyDir(d) /\ d # <<BaseDir>>
       /\ (sw'.pc = "done" /\ ~sw'.dry_run)
            => /\ <<BaseDir>> \in dirs'
               /\ \A d \in dirs' \ {<<BaseDir>>} :
                    \E x \in DOMAIN fs' \cup dirs' :
                       Len(x) > Len(d) /\ SubSeq(x, 1, Len(d)) = d]_vars

\* a finished sweep that deleted both pairs below the camera directory and
\* then removed the date directory and, after it, the camera directory
C25_Witness ==
    /\ sw.pc = "done"
    /\ ~sw.dry_run
    /\ sw.deleted_count >= 2
    /\ DateDir \notin dirs
    /\ CamDir \notin dirs
    /\ <<BaseDir>> \in dirs

\* the buffer was still empty during all of second t: the first frame the
\* camera ever delivered was pushed later (once a frame has been pushed the
\* buffer never becomes empty again)
EmptyThrough(t) == \E e \in Range(frame_buffer) : e.frame = NoFrame + 1 /\ e.ts > t

\* C28: a trigger that comes while the frame buffer is empty writes no
\* pre_event video and no sidecar: no pre_event file carries a time at which
\* the buffer was still empty.
C28_EmptyBufferWritesNothing ==
    \A t \in 0..now :
        EmptyThrough(t)
        => /\ PreEventPath(CameraId, t) \notin DOMAIN fs
           /\ StrReplace(PreEventPath(CameraId, t), ".mp4", ".json") \notin DOMAIN fs

\* root/{camera_id}/{date of t}/{hour of t}, the date and the hour taken as
\* the day number and the hour of the day
DateHourDir(t) ==
    <<BaseDir, "/", CameraId, "/", ToString(t \div DaySeconds), "/",
      ToString((t - (t \div DaySeconds) * DaySeconds) \div HourSeconds)>>

\* C30: the step that commits the sidecar of the export of a trigger at time
\* t leaves a sidecar of type pre_event with start_time = t - pre_event_buffer,
\* end_time = t and duration = pre_event_buffer, and it and its video lie in
\* root/{camera_id}/{date of t}/{hour of t}.
C30_PreEventSidecarFields ==
    [][\A i \in DOMAIN tasks :
         ExportDumpSidecar(i)
         => LET t == tasks[i].trigger_time
                p == tasks[i].md.path
                v == VideoOf(p)
            IN  /\ p \in DOMAIN fs'
                /\ fs'[p].fmt = "json"
                /\ fs'[p].md.type = <<"pre_", "event">>
                /\ fs'[p].md.start_time = t - PreEventBuffer
                /\ fs'[p].md.has_end
                /\ fs'[p].md.end_time = t
                /\ fs'[p].md.duration = PreEventBuffer
                /\ Dirname(p) = DateHourDir(t)
                /\ v \in DOMAIN fs'
                /\ fs'[v].fmt = "video"
                /\ Dirname(v) = DateHourDir(t)]_vars

\* a committed pre_event sidecar, with its video, of a trigger that came in
\* the first second of the next day
C30_Witness ==
    /\ tasks = <<>>
    /\ ntriggers = 1
    /\ \E p \in DOMAIN fs :
         /\ fs[p].fmt = "json"
         /\ fs[p].md.type = TypePreEvent
         /\ fs[p].md.end_time = Midnight
         /\ Dirname(p) = <<BaseDir, "/", CameraId, "/", "1", "/", "0">>
         /\ VideoOf(p) \in DOMAIN fs
         /\ fs[VideoOf(p)].frames # <<>>

SinkCreationFails == ProcessFrameSinkUnopened \/ ProcessFrameMakedirsFails

\* C27: a step in which the creation of the sink fails leaves no writer set
\* and neither pushes nor writes the frame; a frame that arrives while no
\* opened sink is set is taken as the first frame of a segment, so that the
\* creation is tried again; and no sidecar is ever committed for a video
\* that was never created.
C27_SinkFailureLeavesClosed ==
    [][/\ SinkCreationFails
            => (video_writer' = NoHandle /\ frame_buffer' = frame_buffer)
       /\ (pc' = "frame" /\ ~Live(fs', video_writer')) => first_frame' = NoFrame
       /\ \A j \in CommittedSegments' : VideoOf(j) \in DOMAIN fs']_vars

\* the second camera's loop has a step to take: it has not started yet, or
\* its sleep has ended
PeerHasWork ==
    \/ peer.pc = "start"
    \/ peer.pc = "sleep" /\ now >= peer.sleep_until

\* C21: while this camera's coroutine is inside an open or a read that has
\* not returned, the loop of the other camera can take its next step, and a
\* trigger for the other camera can be handled.
C21_BlockedAcquisitionStallsNobody ==
    (pc \in {"connect", "read"} /\ PeerSuspended)
    => /\ PeerHasWork => ENABLED PeerLoop
       /\ (ntriggers < CamsMaxTriggers /\ peer.ntriggers < CamsMaxTriggers)
            => ENABLED OnEventDetected(PeerId)

\* the files below the directory of a camera
FilesOf(camera_id) ==
    {p \in DOMAIN fs : Len(p) >= 3 /\ SubSeq(p, 1, 3) = <<BaseDir, "/", camera_id>>}

\* a step keeps the files of a camera as they are
KeepsFilesOf(camera_id) ==
    \A p \in FilesOf(camera_id) : p \in DOMAIN fs' /\ fs'[p] = fs[p]

\* C22: a step of this camera's processor (a trigger for it, a failed read, an
\* exception in its loop, or any other step of its loop) leaves the other
\* camera's processor, its loop's position included, and its files as they
\* are, and a step of the other camera's processor leaves this one's as they
\* are.
C22_CamerasIsolated ==
    [][/\ (CamsFrameLoop \/ OnEventDetected(CameraId))
            => (peer' = peer /\ KeepsFilesOf(PeerId))
       /\ (PeerLoop \/ OnEventDetected(PeerId))
            => (UNCHANGED <<recorderVars, tasks, ntriggers>> /\ KeepsFilesOf(CameraId))]_vars

\* the other camera is in an event window with an open segment and a frame
\* in its buffer, while this camera was triggered, lost its connection after
\* an exception and is reading again
C22_Witness ==
    /\ peer.event_recording
    /\ peer.video_writer # NoHandle
    /\ peer.frame_buffer # <<>>
    /\ peer.pc = "sleep"
    /\ event_recording
    /\ CommittedSegments # {}
    /\ pc = "read"

\* the video beside a sidecar: the same directory and stem, suffix .mp4
VideoBeside(p) == SubSeq(p, 1, Len(p) - 1) \o <<".mp4">>

\* C31: the sweep removes the video of a pair before its sidecar: a step that
\* removes a sidecar leaves no video beside it behind.
C31_VideoRemovedBeforeSidecar ==
    [][\A p \in Removed : EndsWith(p, ".json") => VideoBeside(p) \notin DOMAIN fs']_vars

\* the dict has no end_time, or null or 0 for it
NoEndTime(md) == ~md.has_end \/ md.end_time = 0

\* C32: a sweep never selects for deletion, and never removes, a sidecar that
\* has no end_time or has 0 for it, whatever its type and whatever
\* max_age_days (0 or more) is.
C32_NoEndTimeNeverDeleted ==
    [][/\ \A p \in Visited :
            (p \in DOMAIN fs /\ EndsWith(p, ".json") /\ Parses(fs[p]) /\ NoEndTime(fs[p].md))
            => ~(sw'.pc = "rm_video" /\ sw'.cur = p)
       /\ \A p \in Removed :
            (EndsWith(p, ".json") /\ Parses(fs[p])) => ~NoEndTime(fs[p].md)]_vars

\* a finished sweep with max_age_days = 0 that deleted a pair and kept a
\* sidecar that has no end_time
C32_Witness ==
    /\ sw.pc = "done"
    /\ ~sw.dry_run
    /\ sw.max_age_days = 0
    /\ sw.deleted_count >= 1
    /\ sw.kept_count >= 1
    /\ \E p \in DOMAIN fs :
         /\ EndsWith(p, ".json") /\ Parses(fs[p])
         /\ NoEndTime(fs[p].md)
         /\ ~Truthy(fs[p].md.keep)
         /\ fs[p].md.type = TypePreEvent

\* C33: the frame buffer never holds more than 100 entries and its entries
\* are in non-decreasing order of their timestamps; a push onto a buffer of
\* 100 entries drops exactly the oldest one and puts the new entry last, and
\* a push onto a shorter buffer drops nothing.
C33_BufferBoundedAndOrdered ==
    /\ [](/\ Len(frame_buffer) <= 100
          /\ \A k \in 1..(Len(frame_buffer) - 1) :
               frame_buffer[k].ts <= frame_buffer[k + 1].ts)
    /\ [][frame_buffer' # frame_buffer
            => LET n == Len(frame_buffer)
                   m == Len(frame_buffer')
               IN  /\ m = (IF n = 100 THEN 100 ELSE n + 1)
                   /\ frame_buffer'[m] = [ts |-> now, frame |-> frame]
                   /\ \A k \in 1..(m - 1) :
                        frame_buffer'[k] = frame_buffer[k + (n + 1 - m)]]_vars

\* a frame was pushed onto the full buffer: it is the last of 100 entries
\* and the oldest entry of before is gone
C33_Witness ==
    /\ Len(frame_buffer) = 100
    /\ frame_buffer[100].frame = 1
    /\ frame_buffer[1] = BufferAfter(100)[2]

\* a step in which one of the two HTTP handlers answers a request for
\* camera_id, the Shinobi trigger returning shinobi_result
Answers(camera_id, shinobi_result) ==
    \/ HandleMotionEvent(camera_id, shinobi_result)
    \/ HandleAlarmEvent(camera_id, shinobi_result)

\* C34: a motion request, an alarm request or an ONVIF event for a camera id
\* that has no stream processor changes the state of no processor and
\* submits no pre-event export; the HTTP handlers answer such a request with
\* the error status 404; a request for a camera that has a processor is
\* answered with success, whether the Shinobi trigger succeeded or failed.
C34_UnknownCameraIgnored ==
    [][\A camera_id \in CameraIds, shinobi_result \in BOOLEAN :
         /\ (camera_id \notin {CameraId, PeerId}
             /\ (Answers(camera_id, shinobi_result) \/ OnEventDetected(camera_id)))
            => UNCHANGED <<recorderVars, peer, tasks, ntriggers, fs, dirs>>
         /\ (camera_id \notin {CameraId, PeerId} /\ Answers(camera_id, shinobi_result))
            => (http'.code = 404 /\ http'.status = "error")
         /\ (camera_id \in {CameraId, PeerId} /\ Answers(camera_id, shinobi_result))
            => (http'.code = 200 /\ http'.status = "success")]_vars

\* a request for a camera without a processor was answered while both
\* processors were at work, and neither is in an event window
C34_Witness ==
    /\ http.code = 404
    /\ http.camera_id \notin {CameraId, PeerId}
    /\ pc = "sleep" /\ peer.pc = "sleep"
    /\ nframes = 1 /\ peer.nframes = 1
    /\ ~event_recording /\ ~peer.event_recording
    /\ tasks = <<>>

====
